---- MODULE Spec2Model ----
(***************************************************************************)
(* Model of the performance-gate pipeline of devpranavbk/demoapp:          *)
(*   - simple_score_generator.py : per-endpoint regression scorer          *)
(*   - verify_score.py           : merge gate reading score_output.json    *)
(*   - extract_login_and_home_api_calls.py : traffic recorder (log_request)*)
(*   - generate_artillery_yaml.py: scenario synthesizer                    *)
(*                                                                         *)
(* Two specifications share the module: Spec (scorer run followed by the   *)
(* gate, repeated in the same working directory) and SynthSpec (recorder   *)
(* followed by the synthesizer).                                           *)
(*                                                                         *)
(* Numbers.  Latencies are whole milliseconds.  penalty_factor is 0.5, so  *)
(* every PQI score is a multiple of one half: pqi_score is held in         *)
(* half-points (ScoreScale units per point).  success_rate is held as the  *)
(* exact reduced fraction <<num, den>> of (passing / total) * 100.         *)
(***************************************************************************)
EXTENDS Integers, Sequences, FiniteSets, TLC

VARIABLES
    \* ---- scorer / gate pipeline ----
    pc,               \* position of the pipeline run
    score_output,     \* the file score_output.json
    baseline_data,    \* what baseline_report.json was loaded as
    pr_data,          \* what pr_report.json was loaded as
    idx,              \* position of the loop in pr_summaries
    key,              \* loop variable: current summary key
    pr_stats,         \* loop variable: current candidate entry
    baseline_stats,   \* baseline_summaries.get(key)
    pqi_score,        \* score of the entry last scored (half-points)
    status,           \* status of the entry last scored
    total_endpoints,
    passing_endpoints,
    failing_endpoints,
    endpoint_results,
    success_rate,     \* the scorer's success_rate, <<num, den>>
    report_saved,     \* pqi_performance_report.html written by this run
    scorer_exit,      \* exit code of simple_score_generator.py (-1: none yet)
    score,            \* the gate's score, <<num, den>>
    gate_exit,        \* exit code of verify_score.py (-1: none yet)
    score_output_before, \* score_output.json as the run found it
    keys_read,        \* the keys of pr_summaries the loop has read, in order
    \* ---- recorder / synthesizer ----
    spc,              \* position of the recorder/synthesizer session
    api_calls,        \* the recorder's api_calls list
    calls_file,       \* the recorded-calls document the recorder wrote
    apis,             \* the document the synthesizer loaded
    target,           \* the synthesizer's target argument, as passed
    output_file,      \* the scenario document on disk
    synth_result      \* how generate_artillery_yaml ended

scoreVars == <<pc, score_output, baseline_data, pr_data, idx, key, pr_stats,
               baseline_stats, pqi_score, status, total_endpoints,
               passing_endpoints, failing_endpoints, endpoint_results,
               success_rate, report_saved, scorer_exit, score, gate_exit,
               score_output_before, keys_read>>

synthVars == <<spc, api_calls, calls_file, apis, target, output_file,
               synth_result>>

vars == <<scoreVars, synthVars>>

----------------------------------------------------------------------------
(* Bounds *)

\* Number of distinct /api/ endpoints a report may hold.
NumApiPaths == 2

\* Longest recorded-calls list.
MaxCalls == 2

----------------------------------------------------------------------------
(* Program constants *)

\* Score unit: pqi_score counts 1/ScoreScale points (penalty_factor = 1/2).
ScoreScale == 2

\* penalty_factor = 0.5, in score units per millisecond.
penalty_factor == 1

\* The perfect score, 100.0.
PerfectScore == 100

\* pqi_score < 90 is FAIL.
FailBelow == 90

\* pqi_score < 95 is WARN.
WarnBelow == 95

\* A new endpoint with pr_p95 > 50 is FAIL.
NewFailAbove == 50

\* A new endpoint with pr_p95 > 20 is WARN.
NewWarnAbove == 20

\* Required score for merge.
SCORE_THRESHOLD == 100

api_prefix == "plugins.metrics-by-endpoint.response_time."

----------------------------------------------------------------------------
(* Helpers *)

Max(a, b) == IF a >= b THEN a ELSE b

RECURSIVE Gcd(_, _)
Gcd(a, b) == IF b = 0 THEN a ELSE Gcd(b, a % b)

\* The number num/den as a reduced fraction (den > 0).
Frac(num, den) ==
    LET g == Gcd(num, den) IN <<num \div g, den \div g>>

\* Strings are token sequences, so that prefix tests and replacement are
\* computed and not assumed.
StartsWith(s, tok) == Len(s) >= 1 /\ s[1] = tok

\* str.replace(tok, ""): every occurrence of tok removed.
Replace(s, tok) == SelectSeq(s, LAMBDA t : t # tok)

----------------------------------------------------------------------------
(* Inputs of the scorer *)

\* How a report file may be found on disk: valid JSON with an
\* aggregate.summaries section, valid JSON without one, absent, not JSON.
FileStates == {"ok", "no_aggregate", "missing", "malformed"}

LoadFailures == {"missing", "malformed"}

EndpointNames == <<"login", "home", "users", "orders">>

ApiKey(i) == <<api_prefix, "/api/", EndpointNames[i]>>

\* The summary keys a report may hold, in document order: a metric that is
\* no endpoint metric, an /api/ path without the prefix, an endpoint metric
\* of a page outside /api/, then the /api/ endpoint metrics.
KeyList ==
    << <<"http.response_time">>,
       <<"/api/", "login">>,
       <<api_prefix, "/", "index.html">> >>
    \o [i \in 1..NumApiPaths |-> ApiKey(i)]

\* p95 latencies (ms) a candidate entry may report.
PrP95Values == {20, 30, 31, 50, 51, 1000}

\* p95 latencies (ms) a baseline entry may report.
BaselineP95Values == {10, 40}

Stats(p) == [present |-> TRUE, p95 |-> p]

\* None: the key has no entry.
NoStats == [present |-> FALSE, p95 |-> 0]

\* score_output.json is absent.
NoFile == [exists |-> FALSE, success_rate |-> <<0, 1>>]

ScoreFile(rate) == [exists |-> TRUE, success_rate |-> rate]

\* What the working directory may hold before the first modelled run: no
\* score artifact, or one a run over twenty endpoints (nineteen passing) left.
InitialArtifacts == {NoFile, ScoreFile(Frac(19 * 100, 20))}

----------------------------------------------------------------------------
(* simple_score_generator.py *)

\* A scorer that floors the score at 0.
PqiScoreFloored(pr_p95, baseline_p95) ==
    Max(0, PerfectScore * ScoreScale
           - Max(0, pr_p95 - baseline_p95) * penalty_factor)

\* penalty = max(0, latency_increase) * penalty_factor; 100.0 - penalty
PqiScore(pr_p95, baseline_p95) ==
    PerfectScore * ScoreScale - Max(0, pr_p95 - baseline_p95) * penalty_factor

\* A classifier that takes the boundaries on the wrong side.
ScoreStatusInclusive(pqi) ==
    IF pqi <= FailBelow * ScoreScale THEN "FAIL"
    ELSE IF pqi <= WarnBelow * ScoreScale THEN "WARN"
    ELSE "PASS"

\* Status of an existing endpoint, from its PQI score.
ScoreStatus(pqi) ==
    IF pqi < FailBelow * ScoreScale THEN "FAIL"
    ELSE IF pqi < WarnBelow * ScoreScale THEN "WARN"
    ELSE "PASS"

\* A classifier of new endpoints that takes the boundaries on the wrong side.
NewEndpointStatusInclusive(pr_p95) ==
    IF pr_p95 >= NewFailAbove THEN "FAIL"
    ELSE IF pr_p95 >= NewWarnAbove THEN "WARN"
    ELSE "PASS"

\* Status of a new endpoint, from its own p95.
NewEndpointStatus(pr_p95) ==
    IF pr_p95 > NewFailAbove THEN "FAIL"
    ELSE IF pr_p95 > NewWarnAbove THEN "WARN"
    ELSE "PASS"

\* A counter that takes WARN for passing.
CountsWarnAsPassing(st) == st \in {"PASS", "WARN"}

\* The summary counters: PASS is passing, FAIL and WARN are failing.
CountsAsPassing(st) == st = "PASS"

CountsAsFailing(st) == st \in {"FAIL", "WARN"}

\* A summary that rates an empty set of endpoints 0.
SuccessRateZeroWhenEmpty(passing, total) ==
    IF total > 0 THEN Frac(passing * 100, total) ELSE Frac(0, 1)

\* (passing_endpoints / total_endpoints) * 100, or 100.0 without endpoints.
SuccessRate(passing, total) ==
    IF total > 0 THEN Frac(passing * 100, total) ELSE Frac(100, 1)

\* The endpoint filter of the loop: prefix, then /api/ path.
IsEndpointMetric(k) == StartsWith(k, api_prefix)

\* A filter that takes every endpoint metric, whatever its path.
IsAnyEndpointMetric(k) == StartsWith(k, api_prefix)

ApiPath(k) == Replace(k, api_prefix)

IsApplicationApi(k) == IsEndpointMetric(k) /\ StartsWith(ApiPath(k), "/api/")

\* The state of a run that has not started.
FreshRun ==
    /\ baseline_data = "unread"
    /\ pr_data = "unread"
    /\ idx = 0
    /\ key = <<>>
    /\ pr_stats = NoStats
    /\ baseline_stats = NoStats
    /\ pqi_score = 0
    /\ status = "none"
    /\ total_endpoints = 0
    /\ passing_endpoints = 0
    /\ failing_endpoints = 0
    /\ endpoint_results = <<>>
    /\ success_rate = <<0, 1>>
    /\ report_saved = FALSE
    /\ scorer_exit = -1
    /\ score = <<0, 1>>
    /\ gate_exit = -1
    /\ keys_read = <<>>

\* Step 1 of generate_report: both reports are opened and parsed, the
\* baseline first; a missing or malformed file ends the scorer with exit 1.
LoadData ==
    /\ pc = "load"
    /\ \E b \in FileStates, p \in FileStates :
        /\ baseline_data' = b
        /\ IF b \in LoadFailures
           THEN /\ pr_data' = "unread"
                /\ scorer_exit' = 1
                /\ pc' = "gate"
           ELSE /\ pr_data' = p
                /\ IF p \in LoadFailures
                   THEN scorer_exit' = 1 /\ pc' = "gate"
                   ELSE scorer_exit' = scorer_exit /\ pc' = "loop"
    /\ UNCHANGED <<score_output, idx, key, pr_stats, baseline_stats, pqi_score,
                   status, total_endpoints, passing_endpoints,
                   failing_endpoints, endpoint_results, success_rate,
                   report_saved, score, gate_exit>>
    /\ UNCHANGED <<score_output_before, keys_read>>
    /\ UNCHANGED synthVars

\* The status and score of one filtered entry.  The test is
\* `if not baseline_stats`; a summary entry of a report is a non-empty
\* object (min, max, count, mean, p50 ... p99), so it is true exactly when
\* baseline_summaries holds no entry under the key.
EndpointScore(pr_p95, bstats) ==
    IF ~bstats.present
    THEN [baseline_p95 |-> 0,
          pqi_score |-> PerfectScore * ScoreScale,
          status |-> NewEndpointStatus(pr_p95)]
    ELSE LET s == PqiScore(pr_p95, bstats.p95)
         IN [baseline_p95 |-> bstats.p95,
             pqi_score |-> s,
             status |-> ScoreStatus(s)]

\* One iteration of the loop over pr_summaries.items().  The entries of the
\* candidate report are inputs, drawn when the loop reads them: the entry at
\* position i of the document (entries before it that the document does not
\* hold are skipped), with candidate p95 p and baseline entry b.
ProcessEndpoint(i, p, b) ==
    /\ pc = "loop"
    /\ pr_data = "ok"
    /\ i > idx
    /\ idx' = i
    /\ key' = KeyList[i]
    /\ pr_stats' = Stats(p)
    /\ IF ~IsApplicationApi(KeyList[i])
       THEN UNCHANGED <<baseline_stats, pqi_score, status, total_endpoints,
                        passing_endpoints, failing_endpoints,
                        endpoint_results>>
       ELSE LET r == EndpointScore(p, b)
            IN /\ total_endpoints' = total_endpoints + 1
               /\ baseline_stats' = b
               /\ pqi_score' = r.pqi_score
               /\ status' = r.status
               /\ passing_endpoints' =
                      IF CountsAsPassing(r.status) THEN passing_endpoints + 1
                      ELSE passing_endpoints
               /\ failing_endpoints' =
                      IF ~CountsAsPassing(r.status) /\ CountsAsFailing(r.status)
                      THEN failing_endpoints + 1
                      ELSE failing_endpoints
               /\ endpoint_results' = Append(endpoint_results,
                      [path |-> ApiPath(KeyList[i]),
                       p95_latest |-> p,
                       p95_base |-> r.baseline_p95,
                       pqi_score |-> r.pqi_score,
                       status |-> r.status])
    /\ UNCHANGED <<pc, score_output, baseline_data, pr_data, success_rate,
                   report_saved, scorer_exit, score, gate_exit>>
    /\ keys_read' = Append(keys_read, KeyList[i])
    /\ UNCHANGED score_output_before
    /\ UNCHANGED synthVars

\* The baseline entries baseline_summaries.get(key) may return.
BaselineEntries ==
    IF baseline_data = "ok"
    THEN {NoStats} \cup {Stats(v) : v \in BaselineP95Values}
    ELSE {NoStats}

\* Step 3 of generate_report, reached when the loop has read every entry:
\* the success rate is computed and score_output.json is written.
WriteScore ==
    /\ pc = "loop"
    /\ success_rate' = SuccessRate(passing_endpoints, total_endpoints)
    /\ score_output' = ScoreFile(success_rate')
    /\ pc' = "render"
    /\ UNCHANGED <<baseline_data, pr_data, idx, key, pr_stats, baseline_stats,
                   pqi_score, status, total_endpoints, passing_endpoints,
                   failing_endpoints, endpoint_results, report_saved,
                   scorer_exit, score, gate_exit>>
    /\ UNCHANGED <<score_output_before, keys_read>>
    /\ UNCHANGED synthVars

\* Steps 4-5 and save_report: the HTML report is rendered and written, and
\* the scorer ends with exit 0.
SaveReport ==
    /\ pc = "render"
    /\ report_saved' = TRUE
    /\ scorer_exit' = 0
    /\ pc' = "gate"
    /\ UNCHANGED <<score_output, baseline_data, pr_data, idx, key, pr_stats,
                   baseline_stats, pqi_score, status, total_endpoints,
                   passing_endpoints, failing_endpoints, endpoint_results,
                   success_rate, score, gate_exit>>
    /\ UNCHANGED <<score_output_before, keys_read>>
    /\ UNCHANGED synthVars

\* Rendering or save_report raises (the report file cannot be written): the
\* handler of the main block prints the error and exits 1.
ReportFails ==
    /\ pc = "render"
    /\ scorer_exit' = 1
    /\ pc' = "gate"
    /\ UNCHANGED <<score_output, baseline_data, pr_data, idx, key, pr_stats,
                   baseline_stats, pqi_score, status, total_endpoints,
                   passing_endpoints, failing_endpoints, endpoint_results,
                   success_rate, report_saved, score, gate_exit>>
    /\ UNCHANGED <<score_output_before, keys_read>>
    /\ UNCHANGED synthVars

----------------------------------------------------------------------------
(* verify_score.py *)

\* A gate that also blocks a score equal to the threshold.
BelowOrAtThreshold(rate) == rate[1] <= SCORE_THRESHOLD * rate[2]

\* score < SCORE_THRESHOLD, on the fraction read from the artifact.
BelowThreshold(rate) == rate[1] < SCORE_THRESHOLD * rate[2]

\* The whole gate script: read score_output.json, exit 1 when it cannot be
\* read or the score is below the threshold, exit 0 otherwise.
VerifyScore ==
    /\ pc = "gate"
    /\ IF ~score_output.exists
       THEN /\ gate_exit' = 1
            /\ score' = score
       ELSE /\ score' = score_output.success_rate
            /\ gate_exit' = IF BelowThreshold(score_output.success_rate)
                            THEN 1 ELSE 0
    /\ pc' = "end"
    /\ UNCHANGED <<score_output, baseline_data, pr_data, idx, key, pr_stats,
                   baseline_stats, pqi_score, status, total_endpoints,
                   passing_endpoints, failing_endpoints, endpoint_results,
                   success_rate, report_saved, scorer_exit>>
    /\ UNCHANGED <<score_output_before, keys_read>>
    /\ UNCHANGED synthVars

\* The next pipeline run starts in the same working directory: every
\* process-local value is fresh, the files stay.
NextRun ==
    /\ pc = "end"
    /\ pc' = "load"
    /\ baseline_data' = "unread"
    /\ pr_data' = "unread"
    /\ idx' = 0
    /\ key' = <<>>
    /\ pr_stats' = NoStats
    /\ baseline_stats' = NoStats
    /\ pqi_score' = 0
    /\ status' = "none"
    /\ total_endpoints' = 0
    /\ passing_endpoints' = 0
    /\ failing_endpoints' = 0
    /\ endpoint_results' = <<>>
    /\ success_rate' = <<0, 1>>
    /\ report_saved' = FALSE
    /\ scorer_exit' = -1
    /\ score' = <<0, 1>>
    /\ gate_exit' = -1
    /\ score_output_before' = score_output
    /\ keys_read' = <<>>
    /\ UNCHANGED score_output
    /\ UNCHANGED synthVars

----------------------------------------------------------------------------
(* Inputs of the recorder and the synthesizer *)

\* A URL is the sequence of its parts as they are written:
\* scheme "://" netloc [path] ["?" query] ["#" fragment].
Url(scheme, netloc, rest) == <<scheme, "://", netloc>> \o rest

LoginUrl == Url("https", "demoapp.example", <<"/api/login">>)

LoginUrlWithQuery ==
    Url("https", "demoapp.example", <<"/api/login", "?", "next=home", "#", "top">>)

HomeUrl == Url("http", "cdn.example", <<"/">>)

Urls == {LoginUrl, LoginUrlWithQuery, HomeUrl}

\* JSON texts are token sequences too.
CredentialsJson == <<"{", "user", ":", "admin", "}">>

FormEncoded == <<"user", "=", "admin">>

\* What request.post_data may be: None (<<>>) or a text.
PostDataValues == {<<>>, <<CredentialsJson>>, <<FormEncoded>>}

\* The requests the page may issue.
Requests ==
    [url : Urls, method : {"GET"}, post_data : {<<>>}]
    \cup [url : Urls, method : {"POST"}, post_data : PostDataValues]

\* A call record of the recorded-calls document.  post_data is <<>> for
\* null; has_post_data tells whether the record has the key at all.
Call(url, method, has_post_data, post_data) ==
    [url |-> url, method |-> method, has_post_data |-> has_post_data,
     post_data |-> post_data]

CallsDocument(items) == [is_list |-> TRUE, items |-> items]

\* No document (nothing written or loaded yet).
NoCallsFile == [is_list |-> FALSE, items |-> <<>>]

\* Documents written by hand instead of by the recorder: a JSON object, a
\* POST record without a post_data key, a lower-case method, a PUT.
SuppliedDocuments ==
    { NoCallsFile,
      CallsDocument(<< Call(LoginUrl, "POST", FALSE, <<>>) >>),
      CallsDocument(<< Call(LoginUrlWithQuery, "post", TRUE, <<CredentialsJson>>) >>),
      CallsDocument(<< Call(HomeUrl, "PUT", FALSE, <<>>) >>) }

\* An explicit target.
OverrideTarget == <<"http", "://", "staging.example">>

\* The target argument: None (<<>>) or an explicit target.
Targets == {<<>>, OverrideTarget}

NoOutput == [exists |-> FALSE, target |-> <<>>, flows |-> <<>>]

Scenario(tgt, flows) == [exists |-> TRUE, target |-> tgt, flows |-> flows]

----------------------------------------------------------------------------
(* extract_login_and_home_api_calls.py *)

\* The record log_request appends for a request.
RecordedCall(request) ==
    IF request.method = "POST"
    THEN Call(request.url, "POST", TRUE, request.post_data)
    ELSE Call(request.url, request.method, FALSE, <<>>)

\* The request handler of the recorder.
log_request(request) ==
    /\ spc = "record"
    /\ Len(api_calls) < MaxCalls
    /\ api_calls' = Append(api_calls, RecordedCall(request))
    /\ UNCHANGED <<spc, calls_file, apis, target, output_file, synth_result>>
    /\ UNCHANGED scoreVars

\* The end of the recording session: api_calls is dumped to OUTPUT_FILE.
WriteCalls ==
    /\ spc = "record"
    /\ calls_file' = CallsDocument(api_calls)
    /\ spc' = "synth"
    /\ UNCHANGED <<api_calls, apis, target, output_file, synth_result>>
    /\ UNCHANGED scoreVars

----------------------------------------------------------------------------
(* generate_artillery_yaml.py *)

\* urllib.parse.urlparse, on the parts of a URL.
urlparse(u) ==
    LET hasPath == Len(u) >= 4 /\ u[4] \notin {"?", "#"}
        afterPath == IF hasPath THEN 5 ELSE 4
        hasQuery == Len(u) > afterPath /\ u[afterPath] = "?"
        afterQuery == IF hasQuery THEN afterPath + 2 ELSE afterPath
        hasFragment == Len(u) > afterQuery /\ u[afterQuery] = "#"
    IN [scheme |-> u[1],
        netloc |-> u[3],
        path |-> IF hasPath THEN u[4] ELSE "",
        query |-> IF hasQuery THEN u[afterPath + 1] ELSE "",
        fragment |-> IF hasFragment THEN u[afterQuery + 1] ELSE ""]

\* str.upper on the method names in use.
Upper(m) ==
    CASE m = "post" -> "POST"
      [] m = "get" -> "GET"
      [] m = "put" -> "PUT"
      [] OTHER -> m

\* json.loads: None is a TypeError; a text parses to an object (a set of
\* key/value pairs) when it is "{" "}" or "{" key ":" value "}".
json_loads(x) ==
    IF x = <<>>
    THEN [error |-> "TypeError", value |-> {}]
    ELSE LET t == x[1]
         IN IF t = <<"{", "}">>
            THEN [error |-> "", value |-> {}]
            ELSE IF Len(t) = 5 /\ t[1] = "{" /\ t[3] = ":" /\ t[5] = "}"
            THEN [error |-> "", value |-> {<<t[2], t[4]>>}]
            ELSE [error |-> "JSONDecodeError", value |-> {}]

\* api.get('post_data', '{}')
GetPostData(api) ==
    IF api.has_post_data THEN api.post_data ELSE << <<"{", "}">> >>

\* The step for one call (error # "" when the call raises).
Step(api) ==
    LET path == urlparse(api.url).path
        method == Upper(api.method)
    IN IF method = "POST"
       THEN LET body == json_loads(GetPostData(api))
            IN [error |-> body.error, verb |-> "post", url |-> path,
                has_json |-> TRUE, json |-> body.value]
       ELSE [error |-> "", verb |-> "get", url |-> path,
             has_json |-> FALSE, json |-> {}]

FlowEntry(st) ==
    [verb |-> st.verb, url |-> st.url, has_json |-> st.has_json,
     json |-> st.json]

\* A loop that skips a call equal to one it has already taken.
RECURSIVE BuildFlowsDistinct(_, _)
BuildFlowsDistinct(items, flows) ==
    IF items = <<>> THEN [error |-> "", flows |-> flows]
    ELSE LET st == Step(Head(items))
         IN IF st.error # "" THEN [error |-> st.error, flows |-> flows]
            ELSE IF \E i \in 1..Len(flows) : flows[i] = FlowEntry(st)
            THEN BuildFlowsDistinct(Tail(items), flows)
            ELSE BuildFlowsDistinct(Tail(items), Append(flows, FlowEntry(st)))

\* The loop over apis: one flow entry appended per call, in order; the
\* first call that raises ends it.
RECURSIVE BuildFlows(_, _)
BuildFlows(items, flows) ==
    IF items = <<>> THEN [error |-> "", flows |-> flows]
    ELSE LET st == Step(Head(items))
         IN IF st.error # "" THEN [error |-> st.error, flows |-> flows]
            ELSE BuildFlows(Tail(items), Append(flows, FlowEntry(st)))

\* f"{parsed.scheme}://{parsed.netloc}"
DerivedTarget(first_url) ==
    LET parsed == urlparse(first_url)
    IN <<parsed.scheme, "://", parsed.netloc>>

Failure(name) == [result |-> name, target |-> <<>>, flows |-> <<>>]

\* A synthesizer that accepts an empty list and writes an empty scenario.
GenerateAcceptingEmpty(doc, tgt) ==
    IF ~doc.is_list THEN Failure("ValueError")
    ELSE IF doc.items = <<>> THEN [result |-> "ok", target |-> tgt, flows |-> <<>>]
    ELSE IF tgt # <<>> THEN Failure("UnboundLocalError")
    ELSE LET built == BuildFlows(doc.items, <<>>)
         IN IF built.error # "" THEN Failure(built.error)
            ELSE [result |-> "ok",
                  target |-> DerivedTarget(doc.items[1].url),
                  flows |-> built.flows]

\* generate_artillery_yaml up to the YAML dump: how it ends, and the target
\* and flows it would write.  urlparse is imported only where the target is
\* derived, so with an explicit target the first use of urlparse in the loop
\* is a use of an unbound local.
Generate(doc, tgt) ==
    IF ~doc.is_list THEN Failure("ValueError")
    ELSE IF doc.items = <<>> THEN Failure("IndexError")
    ELSE IF tgt # <<>> THEN Failure("UnboundLocalError")
    ELSE LET built == BuildFlows(doc.items, <<>>)
         IN IF built.error # "" THEN Failure(built.error)
            ELSE [result |-> "ok",
                  target |-> DerivedTarget(doc.items[1].url),
                  flows |-> built.flows]

\* One run of generate_artillery_yaml(api_file, output_file, target): the
\* document is loaded, and the scenario is written only when nothing raised.
generate_artillery_yaml(doc, tgt) ==
    /\ spc = "synth"
    /\ apis' = doc
    /\ target' = tgt
    /\ LET out == Generate(doc, tgt)
       IN /\ synth_result' = out.result
          /\ output_file' = IF out.result = "ok"
                            THEN Scenario(out.target, out.flows)
                            ELSE output_file
    /\ spc' = "done"
    /\ UNCHANGED <<api_calls, calls_file>>
    /\ UNCHANGED scoreVars

\* What the output path may hold before the synthesizer runs: nothing, or
\* the scenario of an earlier recording.
InitialOutputs ==
    { NoOutput,
      Scenario(DerivedTarget(HomeUrl),
               BuildFlows(<< Call(HomeUrl, "GET", FALSE, <<>>) >>, <<>>).flows) }

----------------------------------------------------------------------------
(* Specification of the scorer/gate pipeline *)

\* The recorder and the synthesizer take no part in this specification.
SynthIdle ==
    /\ spc = "idle"
    /\ api_calls = <<>>
    /\ calls_file = NoCallsFile
    /\ apis = NoCallsFile
    /\ target = <<>>
    /\ output_file = NoOutput
    /\ synth_result = "none"

Init ==
    /\ pc = "load"
    /\ score_output \in InitialArtifacts
    /\ score_output_before = score_output
    /\ FreshRun
    /\ SynthIdle

Next ==
    \/ LoadData
    \/ \E i \in 1..Len(KeyList), p \in PrP95Values, b \in BaselineEntries :
           ProcessEndpoint(i, p, b)
    \/ WriteScore
    \/ SaveReport
    \/ ReportFails
    \/ VerifyScore
    \/ NextRun

Spec == Init /\ [][Next]_vars

----------------------------------------------------------------------------
(* Specification of the recorder followed by the synthesizer *)

\* The scorer and the gate take no part in this specification.
SynthInit ==
    /\ pc = "idle"
    /\ score_output = NoFile
    /\ score_output_before = NoFile
    /\ FreshRun
    /\ spc = "record"
    /\ api_calls = <<>>
    /\ calls_file = NoCallsFile
    /\ apis = NoCallsFile
    /\ target = <<>>
    /\ output_file \in InitialOutputs
    /\ synth_result = "none"

SynthNext ==
    \/ \E request \in Requests : log_request(request)
    \/ WriteCalls
    \/ \E doc \in {calls_file} \cup SuppliedDocuments, tgt \in Targets :
           generate_artillery_yaml(doc, tgt)

SynthSpec == SynthInit /\ [][SynthNext]_vars

----------------------------------------------------------------------------
(* Properties of the scorer and the gate *)

\* The loop has just scored a filtered candidate entry.
ScoredEntry == pc = "loop" /\ IsApplicationApi(key)

\* The scorer of this run loaded both reports.
Loaded == baseline_data \notin {"unread"} \cup LoadFailures
          /\ pr_data \notin {"unread"} \cup LoadFailures

\* The scorer of this run failed to load a report.
LoadFailed == baseline_data \in LoadFailures \/ pr_data \in LoadFailures

\* The scorer of this run has written score_output.json.
ScoreWritten == pc \in {"render", "gate", "end"} /\ Loaded

\* Number of entries of a result list with a given status.
RECURSIVE CountStatus(_, _)
CountStatus(results, st) ==
    IF results = <<>> THEN 0
    ELSE (IF Head(results).status = st THEN 1 ELSE 0)
         + CountStatus(Tail(results), st)

\* C1: a filtered candidate endpoint whose key has a baseline entry scores
\* exactly 100 - max(0, candidate p95 - baseline p95) * 0.5, with no floor:
\* in half-points, 200 minus the increase when p95 rose and 200 otherwise.
C1_PqiIsUnclampedFormula ==
    (ScoredEntry /\ baseline_stats.present) =>
        LET increase == pr_stats.p95 - baseline_stats.p95
        IN /\ increase > 0 => pqi_score = 200 - increase
           /\ increase <= 0 => pqi_score = 200
           /\ endpoint_results[Len(endpoint_results)].pqi_score = pqi_score

\* C1 witness: baseline p95 10, candidate p95 1000, score -395.
C1_Witness ==
    /\ ScoredEntry
    /\ baseline_stats = Stats(10)
    /\ pr_stats = Stats(1000)
    /\ pqi_score = -790

\* C2: a filtered candidate endpoint without a baseline entry scores 100 and
\* its status follows its own p95: FAIL above 50, WARN above 20 up to 50,
\* PASS up to 20.
C2_NewEndpointAbsoluteThresholds ==
    (ScoredEntry /\ ~baseline_stats.present) =>
        /\ pqi_score = 200
        /\ pr_stats.p95 > 50 => status = "FAIL"
        /\ (pr_stats.p95 > 20 /\ pr_stats.p95 <= 50) => status = "WARN"
        /\ pr_stats.p95 <= 20 => status = "PASS"
        /\ endpoint_results[Len(endpoint_results)].status = status
        /\ endpoint_results[Len(endpoint_results)].pqi_score = 200

\* C2 witness: a new endpoint at the boundary p95 = 50 is WARN with score 100.
C2_Witness ==
    /\ ScoredEntry
    /\ ~baseline_stats.present
    /\ pr_stats.p95 = 50
    /\ status = "WARN"
    /\ pqi_score = 200

\* C3: the status of a filtered candidate endpoint with a baseline entry is
\* decided by its score alone: FAIL below 90, WARN from 90 below 95, PASS
\* from 95 (scores in half-points: 180 and 190).
C3_StatusFromScore ==
    (ScoredEntry /\ baseline_stats.present) =>
        /\ pqi_score < 180 => status = "FAIL"
        /\ (pqi_score >= 180 /\ pqi_score < 190) => status = "WARN"
        /\ pqi_score >= 190 => status = "PASS"
        /\ endpoint_results[Len(endpoint_results)].status = status

\* C3 witness: the boundary score 90 is WARN.
C3_Witness ==
    /\ ScoredEntry
    /\ baseline_stats.present
    /\ pqi_score = 180
    /\ status = "WARN"

\* C4: the success rate in the score artifact is passing / total * 100 with
\* passing the number of PASS results only, and 100 when nothing was scored.
C4_SuccessRateIsPassShare ==
    ScoreWritten =>
        LET n == CountStatus(endpoint_results, "PASS")
            t == Len(endpoint_results)
            rate == score_output.success_rate
        IN /\ score_output.exists
           /\ t = 0 => rate = <<100, 1>>
           /\ t > 0 => rate[1] * t = n * 100 * rate[2]
           /\ rate[2] > 0

\* C4 witness: one PASS and one WARN endpoint give a success rate of 50.
C4_Witness ==
    /\ ScoreWritten
    /\ Len(endpoint_results) = 2
    /\ CountStatus(endpoint_results, "PASS") = 1
    /\ CountStatus(endpoint_results, "WARN") = 1
    /\ score_output = ScoreFile(<<50, 1>>)

\* C5: the gate exits 0 exactly when the score held by score_output.json is
\* at least 100, and exits 1 otherwise; nothing but the artifact decides.
C5_GateAllowsIffScoreAtLeastThreshold ==
    pc = "end" =>
        /\ gate_exit \in {0, 1}
        /\ gate_exit = 0 <=>
              (score_output.exists
               /\ score_output.success_rate[1]
                      >= 100 * score_output.success_rate[2])

\* C5 witness: the gate read a score of 95 and blocked.
C5_Witness ==
    /\ pc = "end"
    /\ score_output = ScoreFile(<<95, 1>>)
    /\ score = <<95, 1>>
    /\ gate_exit = 1

\* C10: in a run whose scorer could not load the baseline or the candidate
\* report, the gate of that run blocks, whatever artifact earlier runs left.
C10_FailedLoadBlocksGate ==
    (pc = "end" /\ LoadFailed) => gate_exit = 1

\* C11: a scorer run that ends in failure leaves score_output.json exactly
\* as the run found it; only a run that ends with exit 0 changes the artifact.
C11_FailedRunLeavesArtifact ==
    /\ scorer_exit = 1 => score_output = score_output_before
    /\ (pc \in {"gate", "end"} /\ score_output # score_output_before) =>
           scorer_exit = 0

\* The keys of a sequence that have the fixed prefix followed by a path
\* beginning with /api/, in order.
PrefixedApiKeys(keys) ==
    SelectSeq(keys, LAMBDA k : Len(k) >= 2 /\ k[1] = api_prefix /\ k[2] = "/api/")

\* C12: exactly the candidate keys <prefix><path> with path under /api/ are
\* scored, one result each: total_endpoints, the number of results and
\* passing + failing all equal the number of such keys among the keys read,
\* and result i carries the path of the i-th such key; every other key read
\* contributes nothing.
C12_OnlyPrefixedApiKeysAreScored ==
    LET scored == PrefixedApiKeys(keys_read)
    IN /\ total_endpoints = Len(scored)
       /\ Len(endpoint_results) = Len(scored)
       /\ passing_endpoints + failing_endpoints = Len(scored)
       /\ passing_endpoints = CountStatus(endpoint_results, "PASS")
       /\ \A i \in 1..Len(scored) :
              endpoint_results[i].path = <<scored[i][2], scored[i][3]>>
       /\ ScoreWritten =>
              score_output.success_rate =
                  IF Len(scored) = 0 THEN <<100, 1>>
                  ELSE Frac(passing_endpoints * 100, Len(scored))

\* C12 witness: the candidate report held every modelled key; only the
\* prefixed /api/ keys were counted.
C12_Witness ==
    /\ pc = "render"
    /\ Len(keys_read) = Len(KeyList)
    /\ Len(PrefixedApiKeys(keys_read)) < Len(keys_read)
    /\ total_endpoints = Len(PrefixedApiKeys(keys_read))
    /\ total_endpoints >= 2

\* C13: after a scorer run that ended with exit 0, the gate allows exactly
\* when every scored endpoint is PASS; one WARN or FAIL blocks, and a report
\* without filtered endpoints (or without a summaries section) is allowed.
C13_GateAllowsIffAllPass ==
    (pc = "end" /\ scorer_exit = 0) =>
        /\ gate_exit = 0 <=>
               \A i \in 1..Len(endpoint_results) :
                   endpoint_results[i].status = "PASS"
        /\ (pr_data = "no_aggregate" \/ endpoint_results = <<>>) => gate_exit = 0

\* C13 witness: one PASS and one WARN endpoint, scorer exit 0, gate blocks.
C13_Witness ==
    /\ pc = "end"
    /\ scorer_exit = 0
    /\ Len(endpoint_results) = 2
    /\ endpoint_results[1].status = "PASS"
    /\ endpoint_results[2].status = "WARN"
    /\ gate_exit = 1

----------------------------------------------------------------------------
(* Properties of the synthesizer *)

\* The synthesizer has run on a non-empty list of call records.
SynthesizedCalls == spc = "done" /\ apis.is_list /\ apis.items # <<>>

IsPostCall(c) == c.method \in {"POST", "post"}

\* The call's body is absent: no post_data key, or null.
BodyAbsent(c) == ~c.has_post_data \/ c.post_data = <<>>

\* The call's body is present and is JSON (of the modelled bodies, the
\* credentials object).
BodyIsJson(c) == ~BodyAbsent(c) /\ c.post_data[1] = CredentialsJson

\* C6: a synthesized scenario has exactly one step per recorded call, in the
\* order of the calls, and the url of step i is the path part of the URL of
\* call i (part 4 of every modelled URL), without host, query or fragment.
C6_OneStepPerCallInOrder ==
    (SynthesizedCalls /\ synth_result = "ok") =>
        /\ output_file.exists
        /\ Len(output_file.flows) = Len(apis.items)
        /\ \A i \in 1..Len(apis.items) :
               /\ output_file.flows[i].url = apis.items[i].url[4]
               /\ output_file.flows[i].url \in {"/api/login", "/"}

\* C6 witness: the same call (with a query and a fragment) recorded twice
\* gives two steps, each with the bare path.
C6_Witness ==
    /\ SynthesizedCalls
    /\ synth_result = "ok"
    /\ apis.items = << Call(LoginUrlWithQuery, "GET", FALSE, <<>>),
                      Call(LoginUrlWithQuery, "GET", FALSE, <<>>) >>
    /\ Len(output_file.flows) = 2
    /\ output_file.flows[1].url = "/api/login"
    /\ output_file.flows[2].url = "/api/login"

\* C7: with no explicit target, synthesis fails only when some POST call has
\* a present body that is not JSON; otherwise every POST step carries the
\* parsed body, or the empty object when the body is absent (key missing or
\* null), and every other step carries no body.
C7_PostBodyParsedOrEmptyObject ==
    (SynthesizedCalls /\ target = <<>>) =>
        LET items == apis.items
            n == Len(items)
        IN /\ synth_result # "ok" =>
                  \E i \in 1..n : /\ IsPostCall(items[i])
                                  /\ ~BodyAbsent(items[i])
                                  /\ ~BodyIsJson(items[i])
           /\ synth_result = "ok" =>
                  \A i \in 1..n :
                      LET st == output_file.flows[i]
                      IN IF IsPostCall(items[i])
                         THEN /\ st.has_json
                              /\ st.json = IF BodyAbsent(items[i]) THEN {}
                                           ELSE {<<"user", "admin">>}
                         ELSE ~st.has_json

\* A call list every call of which the synthesizer is specified to accept
\* without falling back on a null body.
ValidCalls ==
    \A i \in 1..Len(apis.items) :
        LET c == apis.items[i]
        IN ~IsPostCall(c) \/ ~c.has_post_data \/ BodyIsJson(c)

\* C8: on a non-empty valid call list synthesis completes and writes the
\* scenario, with the explicit target when one is passed and scheme://host
\* of the first call otherwise.
C8_TargetOverrideOrDerived ==
    (SynthesizedCalls /\ ValidCalls) =>
        /\ synth_result = "ok"
        /\ output_file.exists
        /\ output_file.target =
               IF target # <<>> THEN target
               ELSE <<apis.items[1].url[1], "://", apis.items[1].url[3]>>

\* C9: a run of the synthesizer on an empty list ends with an error and
\* leaves the output file as it was.
C9_EmptyListFailsWithoutOutput ==
    [][(spc = "synth" /\ spc' = "done" /\ apis' = CallsDocument(<<>>)) =>
           /\ synth_result' \notin {"ok", "none"}
           /\ output_file' = output_file]_vars

\* C9 witness: the recorder saw no request, the synthesizer raised
\* IndexError, and the scenario of an earlier recording is still in place.
C9_Witness ==
    /\ spc = "done"
    /\ apis = CallsDocument(<<>>)
    /\ synth_result = "IndexError"
    /\ output_file.exists
    /\ output_file \in InitialOutputs

====
